---- MODULE Spec2Model ----
(***************************************************************************)
(* The channel-backed LDAP connection pool of pooldap (src/conn.go):       *)
(* channelPool (Get, put, NewConn, Close, Len, RefillPool) and the handle  *)
(* PoolConn (Close, MarkUnusable, AutoClose).  Goroutines are modelled as  *)
(* processes with a program counter: callers that Get a handle and Close   *)
(* it, the refill goroutine started by Client.InitClientPool, and          *)
(* goroutines that Close the pool.  Critical sections under c.mu are       *)
(* atomic steps; everything outside c.mu interleaves.                      *)
(***************************************************************************)
EXTENDS Integers, Sequences, FiniteSets

\* ---------------------------------------------------------------- bounds
MaxCap == 2
NumCallers == 2
NumClosers == 2
MaxGets == 3
MaxDiscards == 1
MaxTicks == 1
MaxReuse == 1

\* ------------------------------------------------------- program constants
\* the discard code InitClientPool passes as closeAt: []uint8{200}
DiscardCode == 200

closeAt == {DiscardCode}
\* result codes a caller may report: the discard code and another one
Codes == {DiscardCode, DiscardCode + 1}

Callers == 1..NumCallers
Closers == 1..NumClosers
\* every raw connection the factory can be asked for within the bounds
MaxId == MaxCap + MaxTicks * MaxCap + MaxDiscards + MaxReuse
ConnIds == 1..MaxId
\* the nil ldap.Client / nil *PoolConn
NoConn == 0

VARIABLES
    conns,              \* buffer of the channel made in NewChannelPool
    connsNil,           \* c.conns == nil (the pool is closed)
    factoryNil,         \* c.factory == nil
    chanClosed,         \* close(conns) has been executed
    aliveChecks,        \* c.aliveChecks
    initialConnections, \* c.initialConnections
    created,            \* successful factory invocations so far (ids 1..created)
    closeCount,         \* per raw connection: how often its Close() was called
    pc,                 \* per caller: position in Get / PoolConn.Close
    hconn,              \* per caller: PoolConn.Conn of the handle Get returned
    unusable,           \* per caller: PoolConn.unusable of that handle
    rconn,              \* per caller: the replacement built in PoolConn.Close
    ret,                \* per caller: what the last Get returned
    keep,               \* per caller: it keeps the handle after Close returns
    gets,               \* Gets started so far, over all callers
    rpc,                \* refill goroutine: position in RefillPool
    ri,                 \* refill goroutine: loop variable i
    rh,                 \* refill goroutine: conn returned by NewConn
    cpc,                \* per closer: position in channelPool.Close
    fault,              \* the panic that ended the process, or "none"
    factoryFailed,      \* some factory invocation returned an error
    discards,           \* handles marked unusable / probes failed so far
    ticks,              \* refill passes started so far
    reuse,              \* handles closed again after their first Close
    maxConnections,     \* c.maxConnections, the capacity of the channel
    npc,                \* NewChannelPool: position, or how it returned
    ni,                 \* NewChannelPool: loop variable i
    nfactory            \* NewChannelPool: factory invocations it made

vars == <<conns, connsNil, factoryNil, chanClosed, aliveChecks,
          initialConnections, created, closeCount, pc, hconn, unusable,
          rconn, ret, keep, rpc, ri, rh, cpc, fault, factoryFailed,
          gets, discards, ticks, reuse, maxConnections, npc, ni, nfactory>>

poolVars == <<conns, connsNil, factoryNil, chanClosed>>
callerVars == <<pc, hconn, unusable, rconn, ret, keep>>
refillVars == <<rpc, ri, rh>>
envVars == <<gets, discards, ticks, reuse>>
ctorVars == <<maxConnections, npc, ni, nfactory>>

\* ------------------------------------------------------------- helpers
\* ldap.Client.Close() on raw connection c
Dispose(c) == closeCount' = [closeCount EXCEPT ![c] = @ + 1]

\* channelPool.Len: len(c.getConns()); len of a nil channel is 0
PoolLen == IF connsNil THEN 0 ELSE Len(conns)

\* put with the closed test inverted: an open pool closes what it is given
put_inverted(c) ==
    IF ~connsNil
    THEN Dispose(c) /\ UNCHANGED conns
    ELSE IF Len(conns) < maxConnections
         THEN conns' = Append(conns, c) /\ UNCHANGED closeCount
         ELSE Dispose(c) /\ UNCHANGED conns

\* put whose default case forgets conn.Close()
put_leak(c) ==
    IF connsNil
    THEN Dispose(c) /\ UNCHANGED conns
    ELSE IF Len(conns) < maxConnections
         THEN conns' = Append(conns, c) /\ UNCHANGED closeCount
         ELSE UNCHANGED <<conns, closeCount>>

\* put with a plain send c.conns <- conn instead of the select with default
put_blocking(c) ==
    IF connsNil
    THEN Dispose(c) /\ UNCHANGED conns
    ELSE /\ Len(conns) < maxConnections
         /\ conns' = Append(conns, c)
         /\ UNCHANGED closeCount

\* put without the test c.conns == nil
put_nocheck(c) ==
    IF Len(conns) < maxConnections
    THEN conns' = Append(conns, c) /\ UNCHANGED closeCount
    ELSE Dispose(c) /\ UNCHANGED conns

\* put whose select sends into a store that is already at capacity
put_overfill(c) ==
    IF connsNil
    THEN Dispose(c) /\ UNCHANGED conns
    ELSE IF Len(conns) <= maxConnections
         THEN conns' = Append(conns, c) /\ UNCHANGED closeCount
         ELSE Dispose(c) /\ UNCHANGED conns

\* channelPool.put for a non-nil conn: the critical section under c.mu
put(c) ==
    IF connsNil
    THEN Dispose(c) /\ UNCHANGED conns
    ELSE IF Len(conns) < maxConnections
         THEN conns' = Append(conns, c) /\ UNCHANGED closeCount
         ELSE Dispose(c) /\ UNCHANGED conns

\* NewChannelPool with initialCap = n and a succeeding factory
Init ==
    /\ initialConnections \in 0..MaxCap
    /\ conns = [i \in 1..initialConnections |-> i]
    /\ created = initialConnections
    /\ connsNil = FALSE
    /\ factoryNil = FALSE
    /\ chanClosed = FALSE
    /\ aliveChecks = FALSE
    /\ closeCount = [c \in ConnIds |-> 0]
    /\ pc = [p \in Callers |-> "idle"]
    /\ hconn = [p \in Callers |-> NoConn]
    /\ unusable = [p \in Callers |-> FALSE]
    /\ rconn = [p \in Callers |-> NoConn]
    /\ ret = [p \in Callers |-> "nil"]
    /\ keep = [p \in Callers |-> FALSE]
    /\ gets = 0
    /\ rpc = "sleep"
    /\ ri = 0
    /\ rh = NoConn
    /\ cpc = [k \in Closers |-> "idle"]
    /\ fault = "none"
    /\ factoryFailed = FALSE
    /\ discards = 0
    /\ ticks = 0
    /\ reuse = 0
    /\ maxConnections = MaxCap
    /\ npc = "ok"
    /\ ni = initialConnections
    /\ nfactory = initialConnections

\* the pool was returned by NewChannelPool and no goroutine has panicked (a
\* panic in any goroutine ends the whole process)
Running == npc = "ok" /\ fault = "none"

\* ------------------------------------------------------------ callers
\* channelPool.Get, first half: conns := c.getConns(); nil means closed
GetStart(p) ==
    /\ Running
    /\ UNCHANGED ctorVars
    /\ pc[p] = "idle"
    /\ gets < MaxGets
    /\ gets' = gets + 1
    /\ IF connsNil
       THEN /\ ret' = [ret EXCEPT ![p] = "ErrClosed"]
            /\ UNCHANGED pc
       ELSE /\ ret' = [ret EXCEPT ![p] = "nil"]
            /\ pc' = [pc EXCEPT ![p] = "select"]
    /\ UNCHANGED <<poolVars, aliveChecks, initialConnections, created,
                   closeCount, hconn, unusable, rconn, keep, refillVars, cpc,
                   fault, factoryFailed, discards, ticks, reuse>>

\* channelPool.Get, the select with its single case conn := <-conns: it
\* proceeds only when the buffer holds a connection or the channel is closed
GetSelect(p) ==
    /\ Running
    /\ UNCHANGED ctorVars
    /\ pc[p] = "select"
    /\ IF Len(conns) > 0
       THEN /\ conns' = Tail(conns)
            /\ \E alive \in BOOLEAN :
                 IF ~aliveChecks \/ alive
                 THEN \* return c.wrapConn(conn, c.closeAt), nil
                      /\ hconn' = [hconn EXCEPT ![p] = Head(conns)]
                      /\ pc' = [pc EXCEPT ![p] = "holding"]
                      /\ UNCHANGED <<closeCount, discards>>
                 ELSE \* connection dead: conn.Close(), then c.NewConn()
                      /\ discards < MaxDiscards
                      /\ discards' = discards + 1
                      /\ Dispose(Head(conns))
                      /\ pc' = [pc EXCEPT ![p] = "get_newconn"]
                      /\ UNCHANGED hconn
            /\ UNCHANGED ret
       ELSE \* a receive on the closed, drained channel yields nil
            /\ chanClosed
            /\ ret' = [ret EXCEPT ![p] = "ErrClosed"]
            /\ pc' = [pc EXCEPT ![p] = "idle"]
            /\ UNCHANGED <<conns, closeCount, hconn, discards>>
    /\ UNCHANGED <<connsNil, factoryNil, chanClosed, aliveChecks,
                   initialConnections, created, unusable, rconn, keep,
                   refillVars, cpc, fault, factoryFailed, gets, ticks, reuse>>

\* channelPool.Get, return c.NewConn() after a failed probe
GetNewConn(p) ==
    /\ Running
    /\ UNCHANGED ctorVars
    /\ pc[p] = "get_newconn"
    /\ IF factoryNil
       THEN \* c.factory was set to nil by Close: call of a nil func
            /\ fault' = "get_nil_factory"
            /\ UNCHANGED <<created, hconn, ret, pc, factoryFailed>>
       ELSE \E ok \in BOOLEAN :
              IF ok
              THEN /\ created' = created + 1
                   /\ hconn' = [hconn EXCEPT ![p] = created + 1]
                   /\ pc' = [pc EXCEPT ![p] = "holding"]
                   /\ UNCHANGED <<ret, fault, factoryFailed>>
              ELSE /\ factoryFailed' = TRUE
                   /\ ret' = [ret EXCEPT ![p] = "FactoryErr"]
                   /\ pc' = [pc EXCEPT ![p] = "idle"]
                   /\ UNCHANGED <<created, hconn, fault>>
    /\ UNCHANGED <<poolVars, aliveChecks, initialConnections, closeCount,
                   unusable, rconn, keep, refillVars, cpc, envVars>>

\* PoolConn.MarkUnusable on the handle the caller holds
MarkUnusable(p) ==
    /\ Running
    /\ UNCHANGED ctorVars
    /\ pc[p] = "holding"
    /\ ~unusable[p]
    /\ discards < MaxDiscards
    /\ discards' = discards + 1
    /\ unusable' = [unusable EXCEPT ![p] = TRUE]
    /\ UNCHANGED <<poolVars, aliveChecks, initialConnections, created,
                   closeCount, pc, hconn, rconn, ret, keep, refillVars, cpc,
                   fault, factoryFailed, gets, ticks, reuse>>

\* AutoClose that assigns the outcome of the match, clearing an earlier mark
AutoClose_clears(p, code) ==
    /\ Running
    /\ UNCHANGED ctorVars
    /\ pc[p] = "holding"
    /\ unusable' = [unusable EXCEPT ![p] = \E c \in closeAt : c = code]
    /\ UNCHANGED <<poolVars, aliveChecks, initialConnections, created,
                   closeCount, pc, hconn, rconn, ret, keep, refillVars, cpc,
                   fault, factoryFailed, envVars>>

\* PoolConn.AutoClose(err) with an LDAP error of result code `code`
AutoClose(p, code) ==
    /\ Running
    /\ UNCHANGED ctorVars
    /\ pc[p] = "holding"
    /\ IF \E c \in closeAt : c = code
       THEN /\ unusable[p] \/ discards < MaxDiscards
            /\ unusable' = [unusable EXCEPT ![p] = TRUE]
            /\ discards' = IF unusable[p] THEN discards ELSE discards + 1
       ELSE UNCHANGED <<unusable, discards>>
    /\ UNCHANGED <<poolVars, aliveChecks, initialConnections, created,
                   closeCount, pc, hconn, rconn, ret, keep, refillVars, cpc,
                   fault, factoryFailed, gets, ticks, reuse>>

\* PoolConn.Close has returned: the caller drops the handle, unless it keeps
\* it to call Close on it once more
Returned(p, k) ==
    /\ pc' = [pc EXCEPT ![p] = IF k THEN "kept" ELSE "idle"]
    /\ hconn' = [hconn EXCEPT ![p] = IF k THEN @ ELSE NoConn]
    /\ unusable' = [unusable EXCEPT ![p] = IF k THEN @ ELSE FALSE]
    /\ keep' = [keep EXCEPT ![p] = FALSE]

\* PoolConn.Close that does not look at p.unusable
PoolConnClose_ignoresUnusable(p, k) ==
    /\ put(hconn[p])
    /\ Returned(p, k)
    /\ UNCHANGED <<connsNil, factoryNil, chanClosed, aliveChecks,
                   initialConnections, created, rconn, ret, refillVars, cpc,
                   fault, factoryFailed, gets, discards, ticks>>

\* PoolConn.Close up to the return of its first call into the pool
PoolConnClose(p, k) ==
    /\ IF unusable[p]
       THEN \* p.Conn.Close(); next is p.c.NewConn()
            /\ Dispose(hconn[p])
            /\ pc' = [pc EXCEPT ![p] = "rel_newconn"]
            /\ keep' = [keep EXCEPT ![p] = k]
            /\ UNCHANGED <<conns, hconn, unusable>>
       ELSE \* p.c.put(p.Conn)
            /\ put(hconn[p])
            /\ Returned(p, k)
    /\ UNCHANGED <<connsNil, factoryNil, chanClosed, aliveChecks,
                   initialConnections, created, rconn, ret, refillVars, cpc,
                   fault, factoryFailed, gets, discards, ticks>>

\* the caller gives the handle back: PoolConn.Close
Release(p) ==
    /\ Running
    /\ UNCHANGED ctorVars
    /\ pc[p] = "holding"
    /\ PoolConnClose(p, FALSE)
    /\ UNCHANGED reuse

\* the caller gives the handle back but keeps a reference to it
ReleaseKeep(p) ==
    /\ Running
    /\ UNCHANGED ctorVars
    /\ pc[p] = "holding"
    /\ reuse < MaxReuse
    /\ reuse' = reuse + 1
    /\ PoolConnClose(p, TRUE)

\* the caller calls Close again on a handle it has already given back
ReleaseAgain(p) ==
    /\ Running
    /\ UNCHANGED ctorVars
    /\ pc[p] = "kept"
    /\ PoolConnClose(p, FALSE)
    /\ UNCHANGED reuse

\* PoolConn.Close, unusable branch: conn, _ := p.c.NewConn()
RelNewConn(p) ==
    /\ Running
    /\ UNCHANGED ctorVars
    /\ pc[p] = "rel_newconn"
    /\ IF factoryNil
       THEN /\ fault' = "release_nil_factory"
            /\ UNCHANGED <<created, rconn, pc, factoryFailed>>
       ELSE \E ok \in BOOLEAN :
              IF ok
              THEN /\ created' = created + 1
                   /\ rconn' = [rconn EXCEPT ![p] = created + 1]
                   /\ pc' = [pc EXCEPT ![p] = "rel_put"]
                   /\ UNCHANGED <<fault, factoryFailed>>
              ELSE \* conn is nil: conn.Conn dereferences a nil *PoolConn
                   /\ factoryFailed' = TRUE
                   /\ fault' = "release_nil_conn"
                   /\ UNCHANGED <<created, rconn, pc>>
    /\ UNCHANGED <<poolVars, aliveChecks, initialConnections, closeCount,
                   hconn, unusable, ret, keep, refillVars, cpc, envVars>>

\* PoolConn.Close, unusable branch: p.c.put(conn.Conn) and return
RelPut(p) ==
    /\ Running
    /\ UNCHANGED ctorVars
    /\ pc[p] = "rel_put"
    /\ put(rconn[p])
    /\ rconn' = [rconn EXCEPT ![p] = NoConn]
    /\ Returned(p, keep[p])
    /\ UNCHANGED <<connsNil, factoryNil, chanClosed, aliveChecks,
                   initialConnections, created, ret, refillVars, cpc, fault,
                   factoryFailed, envVars>>

\* channelPool.AliveChecks(on)
AliveChecks(on) ==
    /\ Running
    /\ UNCHANGED ctorVars
    /\ aliveChecks # on
    /\ aliveChecks' = on
    /\ UNCHANGED <<poolVars, initialConnections, created, closeCount,
                   callerVars, refillVars, cpc, fault, factoryFailed, envVars>>

\* ------------------------------------------------------ refill goroutine
\* a pass that starts with i := c.initialConnections and so builds nothing
RefillTick_nopass ==
    /\ Running
    /\ UNCHANGED ctorVars
    /\ rpc = "sleep"
    /\ ticks < MaxTicks
    /\ ticks' = ticks + 1
    /\ ri' = initialConnections
    /\ rpc' = "loop"
    /\ UNCHANGED <<poolVars, aliveChecks, initialConnections, created,
                   closeCount, callerVars, rh, cpc, fault, factoryFailed,
                   gets, discards, reuse>>

\* RefillPool: wake from time.Sleep and start the pass with i := c.Len()
RefillTick ==
    /\ Running
    /\ UNCHANGED ctorVars
    /\ rpc = "sleep"
    /\ ticks < MaxTicks
    /\ ticks' = ticks + 1
    /\ ri' = PoolLen
    /\ rpc' = "loop"
    /\ UNCHANGED <<poolVars, aliveChecks, initialConnections, created,
                   closeCount, callerVars, rh, cpc, fault, factoryFailed,
                   gets, discards, reuse>>

\* RefillPool: the test i < c.initialConnections and conn, err := c.NewConn()
RefillNewConn ==
    /\ Running
    /\ UNCHANGED ctorVars
    /\ rpc = "loop"
    /\ IF ri < initialConnections
       THEN IF factoryNil
            THEN /\ fault' = "refill_nil_factory"
                 /\ UNCHANGED <<created, rh, rpc, factoryFailed>>
            ELSE \E ok \in BOOLEAN :
                   IF ok
                   THEN /\ created' = created + 1
                        /\ rh' = created + 1
                        /\ rpc' = "put"
                        /\ UNCHANGED <<fault, factoryFailed>>
                   ELSE \* conn is nil: conn.MarkUnusable() writes through it
                        /\ factoryFailed' = TRUE
                        /\ fault' = "refill_nil_conn"
                        /\ UNCHANGED <<created, rh, rpc>>
       ELSE /\ rpc' = "sleep"
            /\ UNCHANGED <<created, rh, fault, factoryFailed>>
    /\ UNCHANGED <<poolVars, aliveChecks, initialConnections, closeCount,
                   callerVars, ri, cpc, envVars>>

\* RefillPool: c.put(conn.Conn) and i++
RefillPut ==
    /\ Running
    /\ UNCHANGED ctorVars
    /\ rpc = "put"
    /\ put(rh)
    /\ rh' = NoConn
    /\ ri' = ri + 1
    /\ rpc' = "loop"
    /\ UNCHANGED <<connsNil, factoryNil, chanClosed, aliveChecks,
                   initialConnections, created, callerVars, cpc, fault,
                   factoryFailed, envVars>>

\* ---------------------------------------------------------------- Close
\* channelPool.Close: the critical section, then if conns == nil return
CloseLock(k) ==
    /\ Running
    /\ UNCHANGED ctorVars
    /\ cpc[k] = "idle"
    /\ connsNil' = TRUE
    /\ factoryNil' = TRUE
    /\ cpc' = [cpc EXCEPT ![k] = IF connsNil THEN "done" ELSE "close_chan"]
    /\ UNCHANGED <<conns, chanClosed, aliveChecks, initialConnections,
                   created, closeCount, callerVars, refillVars, fault,
                   factoryFailed, envVars>>

\* channelPool.Close: close(conns)
CloseChan(k) ==
    /\ Running
    /\ UNCHANGED ctorVars
    /\ cpc[k] = "close_chan"
    /\ IF chanClosed
       THEN \* close of a closed channel panics
            /\ fault' = "close_closed_chan"
            /\ UNCHANGED <<chanClosed, cpc>>
       ELSE /\ chanClosed' = TRUE
            /\ cpc' = [cpc EXCEPT ![k] = "drain"]
            /\ UNCHANGED fault
    /\ UNCHANGED <<conns, connsNil, factoryNil, aliveChecks,
                   initialConnections, created, closeCount, callerVars,
                   refillVars, factoryFailed, envVars>>

\* the drain loop of Close without conn.Close()
CloseDrain_nodispose(k) ==
    /\ Running
    /\ UNCHANGED ctorVars
    /\ cpc[k] = "drain"
    /\ IF Len(conns) > 0
       THEN /\ conns' = Tail(conns)
            /\ UNCHANGED cpc
       ELSE /\ cpc' = [cpc EXCEPT ![k] = "done"]
            /\ UNCHANGED conns
    /\ UNCHANGED <<connsNil, factoryNil, chanClosed, aliveChecks,
                   initialConnections, created, closeCount, callerVars,
                   refillVars, fault, factoryFailed, envVars>>

\* channelPool.Close: one iteration of for conn := range conns
CloseDrain(k) ==
    /\ Running
    /\ UNCHANGED ctorVars
    /\ cpc[k] = "drain"
    /\ IF Len(conns) > 0
       THEN /\ conns' = Tail(conns)
            /\ Dispose(Head(conns))
            /\ UNCHANGED cpc
       ELSE /\ cpc' = [cpc EXCEPT ![k] = "done"]
            /\ UNCHANGED <<conns, closeCount>>
    /\ UNCHANGED <<connsNil, factoryNil, chanClosed, aliveChecks,
                   initialConnections, created, callerVars, refillVars,
                   fault, factoryFailed, envVars>>

\* how often raw connection c occurs in the store
InStore(c) == Cardinality({i \in 1..Len(conns) : conns[i] = c})

\* ------------------------------------------------------- NewChannelPool
\* The call NewChannelPool(initialCap, maxCap, ..., factory, ...) with any
\* arguments: nothing is built and the factory has not been invoked.
InitCreate ==
    /\ initialConnections \in -1..(MaxCap + 1)
    /\ maxConnections \in 0..MaxCap
    /\ conns = <<>>
    /\ connsNil = FALSE
    /\ factoryNil = FALSE
    /\ chanClosed = FALSE
    /\ aliveChecks = FALSE
    /\ created = 0
    /\ closeCount = [c \in ConnIds |-> 0]
    /\ pc = [p \in Callers |-> "idle"]
    /\ hconn = [p \in Callers |-> NoConn]
    /\ unusable = [p \in Callers |-> FALSE]
    /\ rconn = [p \in Callers |-> NoConn]
    /\ ret = [p \in Callers |-> "nil"]
    /\ keep = [p \in Callers |-> FALSE]
    /\ gets = 0
    /\ rpc = "sleep"
    /\ ri = 0
    /\ rh = NoConn
    /\ cpc = [k \in Closers |-> "idle"]
    /\ fault = "none"
    /\ factoryFailed = FALSE
    /\ discards = 0
    /\ ticks = 0
    /\ reuse = 0
    /\ npc = "start"
    /\ ni = 0
    /\ nfactory = 0

\* NewChannelPool: the test of the capacity settings
NewCheck ==
    /\ npc = "start"
    /\ npc' = IF initialConnections < 0 \/ maxConnections <= 0
                 \/ initialConnections > maxConnections
              THEN "error"
              ELSE "fill"
    /\ UNCHANGED <<poolVars, aliveChecks, initialConnections, created,
                   closeCount, callerVars, refillVars, cpc, fault,
                   factoryFailed, envVars, maxConnections, ni, nfactory>>

\* the pre-fill loop whose failure branch returns without c.Close()
NewFill_noclose ==
    /\ npc = "fill"
    /\ IF ni < initialConnections
       THEN /\ nfactory' = nfactory + 1
            /\ \/ /\ created' = created + 1
                  /\ conns' = Append(conns, created + 1)
                  /\ ni' = ni + 1
                  /\ UNCHANGED <<npc, factoryFailed>>
               \/ /\ factoryFailed' = TRUE
                  /\ npc' = "error"
                  /\ UNCHANGED <<conns, created, ni>>
       ELSE /\ npc' = "ok"
            /\ UNCHANGED <<conns, created, ni, nfactory, factoryFailed>>
    /\ UNCHANGED <<connsNil, factoryNil, chanClosed, closeCount, aliveChecks,
                   initialConnections, callerVars, refillVars, cpc, fault,
                   envVars, maxConnections>>

\* the pre-fill loop that stops one connection short of initialCap
NewFill_short ==
    /\ npc = "fill"
    /\ IF ni < initialConnections - 1
       THEN /\ nfactory' = nfactory + 1
            /\ \/ /\ created' = created + 1
                  /\ conns' = Append(conns, created + 1)
                  /\ ni' = ni + 1
                  /\ UNCHANGED <<npc, factoryFailed, connsNil, factoryNil,
                                 chanClosed, closeCount>>
               \/ /\ factoryFailed' = TRUE
                  /\ connsNil' = TRUE
                  /\ factoryNil' = TRUE
                  /\ chanClosed' = TRUE
                  /\ conns' = <<>>
                  /\ closeCount' = [c \in ConnIds |->
                                      closeCount[c] + InStore(c)]
                  /\ npc' = "error"
                  /\ UNCHANGED <<created, ni>>
       ELSE /\ npc' = "ok"
            /\ UNCHANGED <<conns, created, ni, nfactory, factoryFailed,
                           connsNil, factoryNil, chanClosed, closeCount>>
    /\ UNCHANGED <<aliveChecks, initialConnections, callerVars, refillVars,
                   cpc, fault, envVars, maxConnections>>

\* NewChannelPool: one iteration of for i := 0; i < initialCap; i++, or the
\* return after it.  The factory is invoked; its connection is sent into the
\* channel (never full here, i < initialCap <= maxCap); on its error the
\* constructor runs c.Close(), which closes the channel and closes every
\* buffered connection, and returns the error.  No other goroutine has the
\* pool yet, so the whole of c.Close() is one step.
NewFill ==
    /\ npc = "fill"
    /\ IF ni < initialConnections
       THEN /\ nfactory' = nfactory + 1
            /\ \/ /\ created' = created + 1
                  /\ conns' = Append(conns, created + 1)
                  /\ ni' = ni + 1
                  /\ UNCHANGED <<npc, factoryFailed, connsNil, factoryNil,
                                 chanClosed, closeCount>>
               \/ /\ factoryFailed' = TRUE
                  /\ connsNil' = TRUE
                  /\ factoryNil' = TRUE
                  /\ chanClosed' = TRUE
                  /\ conns' = <<>>
                  /\ closeCount' = [c \in ConnIds |->
                                      closeCount[c] + InStore(c)]
                  /\ npc' = "error"
                  /\ UNCHANGED <<created, ni>>
       ELSE /\ npc' = "ok"
            /\ UNCHANGED <<conns, created, ni, nfactory, factoryFailed,
                           connsNil, factoryNil, chanClosed, closeCount>>
    /\ UNCHANGED <<aliveChecks, initialConnections, callerVars, refillVars,
                   cpc, fault, envVars, maxConnections>>

\* ------------------------------------------------------- specifications
CallerStep(p) ==
    \/ GetStart(p)
    \/ GetSelect(p)
    \/ GetNewConn(p)
    \/ MarkUnusable(p)
    \/ \E code \in Codes : AutoClose(p, code)
    \/ Release(p)
    \/ RelNewConn(p)
    \/ RelPut(p)

RefillStep == RefillTick \/ RefillNewConn \/ RefillPut

CloseStep(k) == CloseLock(k) \/ CloseChan(k) \/ CloseDrain(k)

Next ==
    \/ \E p \in Callers : CallerStep(p)
    \/ RefillStep
    \/ \E k \in Closers : CloseStep(k)
    \/ \E on \in BOOLEAN : AliveChecks(on)

Spec == Init /\ [][Next]_vars

\* the same program with callers that may Close a handle a second time
NextReuse ==
    \/ Next
    \/ \E p \in Callers : ReleaseKeep(p) \/ ReleaseAgain(p)

SpecReuse == Init /\ [][NextReuse]_vars

\* The program from the call of NewChannelPool on: construction, then, if it
\* returned a pool, everything Spec does with it.
NextLife ==
    \/ NewCheck
    \/ NewFill
    \/ Next

SpecLife == InitCreate /\ [][NextLife]_vars

\* The pool while nobody closes it: callers and the refill goroutine only.
NextOpen ==
    \/ \E p \in Callers : CallerStep(p)
    \/ RefillStep
    \/ \E on \in BOOLEAN : AliveChecks(on)

\* Scheduling: a goroutine that can run does run.  Whether a caller starts a
\* Get, marks its handle, or toggles the liveness mode is up to the
\* environment and is not forced.
Fairness ==
    /\ \A p \in Callers :
          /\ WF_vars(GetSelect(p))
          /\ WF_vars(GetNewConn(p))
          /\ WF_vars(Release(p))
          /\ WF_vars(RelNewConn(p))
          /\ WF_vars(RelPut(p))
    /\ WF_vars(RefillStep)

FairSpec == Init /\ [][NextOpen]_vars /\ Fairness

\* The open pool where only the refill goroutine is sure to run: callers may
\* keep their handles for as long as they like.
FairRefillSpec == Init /\ [][NextOpen]_vars /\ WF_vars(RefillStep)

\* ------------------------------------------------------------ accounting
\* the outstanding handles that wrap raw connection c: a caller's handle
\* between Get and Close, the replacement NewConn returned to PoolConn.Close,
\* and the handle NewConn returned to RefillPool
Holders(c) ==
    Cardinality({p \in Callers : pc[p] = "holding" /\ hconn[p] = c})
    + Cardinality({p \in Callers : rconn[p] = c})
    + (IF rh = c THEN 1 ELSE 0)

RECURSIVE SumTo(_, _)
SumTo(f, n) == IF n = 0 THEN 0 ELSE f[n] + SumTo(f, n - 1)

\* Close() calls made on raw connections so far
Disposals == SumTo(closeCount, MaxId)

\* connections held by outstanding handles
HeldCount ==
    Cardinality({p \in Callers : pc[p] = "holding"})
    + Cardinality({p \in Callers : rconn[p] # NoConn})
    + (IF rh # NoConn THEN 1 ELSE 0)

\* connections created and not yet disposed
Live == created - Disposals

\* ---------------------------------------------------------------- claims

\* C1: in every reachable state each raw connection is held by at most one
\* outstanding handle, occurs at most once in the store, and is never both in
\* the store and held by a handle -- also when Close is called on a handle
\* that Get returned earlier and that was already given back.
C1_ExclusiveOwnership ==
    \A c \in 1..created :
        /\ Holders(c) <= 1
        /\ InStore(c) <= 1
        /\ ~(InStore(c) > 0 /\ Holders(c) > 0)

\* C2: a Get on an open pool whose store is empty is not suspended: its
\* receive step can be taken (falling through to a fresh connection).
C2_EmptyStoreCheckoutProceeds ==
    \A p \in Callers :
        (Running /\ pc[p] = "select" /\ ~connsNil /\ Len(conns) = 0)
            => ENABLED GetSelect(p)

\* C3: a Get against a closed pool fails with ErrClosed and neither blocks
\* nor panics: no Get ends in a panic, a Get waiting on the closed channel
\* can return, and a Get that ran into the closed pool reports ErrClosed.
C3_ClosedCheckoutFailsCleanly ==
    \A p \in Callers :
        /\ fault # "get_nil_factory"
        /\ (Running /\ pc[p] = "select" /\ chanClosed) => ENABLED GetSelect(p)
        /\ (ret[p] = "ErrClosed") => connsNil

\* the cases the liveness of callers does not cover: the pool was closed,
\* the factory failed, or the pool was built with no connection
C4_Excused == connsNil \/ factoryFailed \/ initialConnections = 0

\* C4: with target occupancy >= 1, a factory that never fails and a pool
\* that stays open, every caller waiting in Get eventually holds a handle and
\* every caller holding a handle eventually completes its Close, under fair
\* scheduling.
C4_EveryCallerCompletes ==
    \A p \in Callers :
        /\ (pc[p] = "select") ~> (pc[p] = "holding" \/ C4_Excused)
        /\ (pc[p] = "holding") ~> (pc[p] = "idle" \/ C4_Excused)

\* more callers than connections: every Get was served and every caller is
\* back idle, on an open pool whose factory never failed
C4_Witness ==
    /\ ~C4_Excused
    /\ initialConnections < NumCallers
    /\ gets = MaxGets
    /\ \A p \in Callers : pc[p] = "idle"

\* C5: conservation -- the connections created by the factory are exactly
\* those disposed, those idle in the store and those held by outstanding
\* handles; once every handle is released, created = disposed + idle.  (It
\* holds with and without handles marked unusable.)
C5_Conservation ==
    /\ created = Disposals + Len(conns) + HeldCount
    /\ ((\A p \in Callers : pc[p] = "idle") /\ rh = NoConn)
           => created = Disposals + Len(conns)

\* handles were checked out and given back, none ever marked unusable and no
\* probe failed, yet a connection was disposed (the store was full), one is
\* idle and one is checked out
C5_Witness ==
    /\ discards = 0
    /\ ~connsNil
    /\ Disposals > 0
    /\ Len(conns) > 0
    /\ \E p \in Callers : pc[p] = "holding"

\* C6: starting from a full store with a factory that never fails, the
\* number of live connections (created and not disposed) never exceeds the
\* capacity.
C6_LiveWithinCapacity ==
    (initialConnections = maxConnections /\ ~factoryFailed)
        => Live <= maxConnections

\* what each step of PoolConn.Close on an unusable handle must do
C7_Steps(p) ==
    /\ (pc[p] = "holding" /\ unusable[p] /\ pc'[p] # "holding")
         => /\ pc'[p] = "rel_newconn"
            /\ closeCount' = [closeCount EXCEPT ![hconn[p]] = @ + 1]
            /\ conns' = conns
            /\ created' = created
    /\ (pc[p] = "rel_newconn" /\ pc'[p] # "rel_newconn")
         => /\ pc'[p] = "rel_put"
            /\ created' = created + 1
            /\ rconn'[p] = created + 1
            /\ conns' = conns
            /\ closeCount' = closeCount
    /\ (pc[p] = "rel_put" /\ pc'[p] # "rel_put")
         => /\ pc'[p] = "idle"
            /\ created' = created
            /\ (~connsNil /\ Len(conns) < maxConnections)
                  => conns' = Append(conns, rconn[p]) /\ closeCount' = closeCount

\* C7: closing a handle marked unusable on an open pool with a succeeding
\* factory disposes the wrapped connection, does not touch the store, calls
\* the factory once, and offers that one replacement to the store (appended
\* when the store is not full); a disposed connection is never in the store.
C7_UnusableReleaseReplaces ==
    [][ /\ \A p \in Callers : C7_Steps(p)
        /\ \A c \in ConnIds : closeCount'[c] > 0 => InStore(c)' = 0 ]_vars

\* an unusable handle is being closed on an open pool: its connection is
\* disposed, the one replacement is built and about to enter the store
C7_Witness ==
    \E p \in Callers :
        /\ pc[p] = "rel_put"
        /\ unusable[p]
        /\ closeCount[hconn[p]] = 1
        /\ rconn[p] = created
        /\ ~connsNil
        /\ Len(conns) < maxConnections

\* what PoolConn.Close on a usable handle must do on an open pool
C8_Steps(p) ==
    (pc[p] = "holding" /\ ~unusable[p] /\ ~connsNil /\ pc'[p] # "holding")
      => /\ pc'[p] = "idle"
         /\ IF Len(conns) < maxConnections
            THEN /\ conns' = Append(conns, hconn[p])
                 /\ closeCount' = closeCount
            ELSE /\ conns' = conns
                 /\ closeCount' = [closeCount EXCEPT ![hconn[p]] = @ + 1]

\* C8: closing a usable handle on an open pool never waits: the step can
\* always be taken; below capacity the connection is appended to the store
\* and not disposed, at capacity it is disposed and the store is unchanged.
C8_UsableReleaseNeverWaits ==
    /\ [](\A p \in Callers :
            (Running /\ pc[p] = "holding") => ENABLED Release(p))
    /\ [][\A p \in Callers : C8_Steps(p)]_vars

\* a usable handle was closed against a full store: on a pool never closed
\* and with nothing ever discarded, one of the connections the pool started
\* with is disposed (the refill goroutine only puts connections it built)
C8_Witness ==
    /\ discards = 0
    /\ ~connsNil
    /\ \E c \in 1..initialConnections : closeCount[c] = 1

\* some Close call has returned and none is in progress
AllClosesDone ==
    /\ \E k \in Closers : cpc[k] = "done"
    /\ \A k \in Closers : cpc[k] \in {"idle", "done"}

\* C9: Close disposes the connections idle in the store, each exactly once;
\* afterwards Len() is 0; a further Close, sequential or concurrent, disposes
\* nothing more and does not panic.
C9_CloseDisposesIdle ==
    /\ \A c \in ConnIds : closeCount[c] <= 1
    /\ (\E k \in Closers : cpc[k] # "idle") => PoolLen = 0
    /\ fault # "close_closed_chan"
    /\ Cardinality({k \in Closers : cpc[k] \in {"close_chan", "drain"}}) <= 1
    /\ AllClosesDone =>
          /\ conns = << >>
          /\ \A c \in 1..created :
                \/ closeCount[c] = 1 /\ Holders(c) = 0
                \/ closeCount[c] = 0 /\ Holders(c) = 1

\* every Close call has returned, two of them, and all connections of a
\* pool that started with idle connections are disposed exactly once
C9_Witness ==
    /\ \A k \in Closers : cpc[k] = "done"
    /\ initialConnections = maxConnections
    /\ gets = 0 /\ ticks = 0
    /\ \A c \in 1..created : closeCount[c] = 1

\* what every step must preserve once c.conns is nil
C10_Steps ==
    /\ connsNil => (conns' = conns \/ (Len(conns) > 0 /\ conns' = Tail(conns)))
    /\ \A p \in Callers :
         (connsNil /\ pc[p] = "holding" /\ ~unusable[p] /\ pc'[p] = "idle")
            => closeCount'[hconn[p]] = 1
    /\ \A p \in Callers :
         (connsNil /\ pc[p] = "rel_put" /\ pc'[p] = "idle")
            => closeCount'[rconn[p]] = 1
    /\ (connsNil /\ rpc = "put" /\ rpc' = "loop") => closeCount'[rh] = 1
    /\ \A c \in ConnIds : closeCount'[c] <= 1
    /\ AllClosesDone' =>
          \A c \in 1..created' : (closeCount[c] + Holders(c))' = 1

\* C10: once the pool is closed nothing is inserted into its store (the
\* store only shrinks, from the head); a connection released to the closed
\* pool is disposed by the release itself; no connection is disposed twice,
\* and when Close has finished none is left that is neither held nor disposed.
C10_ClosedPoolAcceptsNothing == [][C10_Steps]_vars

\* a handle was given back after the close transition and its connection was
\* disposed by that put: nothing was ever discarded, the store was never
\* full, and Close has not yet closed or drained the channel
C10_Witness ==
    /\ \E k \in Closers : cpc[k] = "close_chan"
    /\ ~chanClosed
    /\ discards = 0
    /\ created < maxConnections
    /\ \E c \in 1..created : closeCount[c] = 1

\* C11: from the call of NewChannelPool on, through pre-fill, Get, handle
\* Close (usable or unusable) and refill passes in any interleaving, the
\* number of idle connections in the store is between 0 and the capacity.
C11_OccupancyWithinCapacity ==
    /\ Len(conns) >= 0
    /\ Len(conns) <= maxConnections
    /\ PoolLen >= 0
    /\ PoolLen <= maxConnections

\* a pool built full with capacity 1: its connection was checked out, a
\* refill pass built and inserted a second one, and the Close of the first
\* handle found the store full and disposed its connection
C11_Witness ==
    /\ npc = "ok"
    /\ maxConnections = 1
    /\ nfactory = 1
    /\ ~connsNil
    /\ conns = <<2>>
    /\ created = 2
    /\ closeCount[1] = 1
    /\ ticks = 1

\* NewChannelPool has just returned a pool: nothing has used it yet
JustCreated ==
    /\ npc = "ok"
    /\ gets = 0
    /\ ticks = 0
    /\ \A k \in Closers : cpc[k] = "idle"

\* the capacity settings NewChannelPool accepts
ValidCapacity ==
    /\ 0 <= initialConnections
    /\ initialConnections <= maxConnections
    /\ maxConnections > 0

\* C12: with 0 <= initialCap <= maxCap, maxCap > 0 and a factory that
\* succeeds, NewChannelPool invokes the factory exactly initialCap times
\* (its sends never wait) and returns an open pool whose store holds exactly
\* the initialCap connections it built, so Len() right after creation is
\* initialCap; it fails only on invalid settings or a factory error.
C12_CreateFillsToTarget ==
    /\ (npc = "fill" /\ ni < initialConnections)
          => Len(conns) < maxConnections
    /\ npc = "error" => (~ValidCapacity \/ factoryFailed)
    /\ JustCreated =>
          /\ ValidCapacity
          /\ nfactory = initialConnections
          /\ created = initialConnections
          /\ conns = [i \in 1..initialConnections |-> i]
          /\ ~connsNil /\ ~chanClosed /\ ~factoryNil
          /\ PoolLen = initialConnections
          /\ \A c \in ConnIds : closeCount[c] = 0

\* a pool just built with initialCap = maxCap, the largest pre-fill
C12_Witness ==
    /\ JustCreated
    /\ maxConnections = MaxCap
    /\ nfactory = MaxCap
    /\ PoolLen = MaxCap

\* C13: a failed NewChannelPool leaks nothing and returns no pool: with
\* invalid settings the factory is never invoked; when the k-th pre-fill
\* invocation fails, the k-1 connections built before are closed exactly
\* once each, the factory is not invoked again, and the constructor returns
\* its error -- nothing is left in the store and nobody operates on the pool.
C13_FailedCreateLeaksNothing ==
    /\ ~ValidCapacity =>
          /\ npc \in {"start", "error"}
          /\ nfactory = 0
          /\ created = 0
    /\ npc = "error" =>
          /\ conns = << >>
          /\ \A c \in ConnIds :
                closeCount[c] = IF c <= created THEN 1 ELSE 0
          /\ ValidCapacity =>
                /\ factoryFailed
                /\ nfactory = created + 1
                /\ nfactory <= initialConnections
          /\ gets = 0 /\ ticks = 0
          /\ \A k \in Closers : cpc[k] = "idle"
          /\ ~ENABLED NextLife

\* the last pre-fill invocation failed after MaxCap - 1 connections were
\* built, and the constructor has returned its error
C13_Witness ==
    /\ npc = "error"
    /\ factoryFailed
    /\ nfactory = MaxCap
    /\ created = MaxCap - 1
    /\ \A c \in 1..(MaxCap - 1) : closeCount[c] = 1

\* C14: a factory failure during a refill pass does not fault the refill
\* goroutine: no pass ends in the dereference of the nil handle that NewConn
\* returns with its error.
C14_RefillSurvivesFactoryFailure == fault # "refill_nil_conn"

\* no caller is in Get or can start one
NoMoreCheckouts ==
    /\ gets = MaxGets
    /\ \A p \in Callers : pc[p] \notin {"select", "get_newconn"}

\* C15: on an open pool whose refill goroutine is asleep with a tick to
\* come, whenever Len() is below initialConnections and callers perform no
\* further Get, Len() eventually is at least initialConnections unless the
\* factory fails, under fair scheduling of the refill goroutine.
C15_RefillHeals ==
    (/\ ~connsNil
     /\ rpc = "sleep" /\ ticks < MaxTicks
     /\ NoMoreCheckouts
     /\ PoolLen < initialConnections)
        ~> (PoolLen >= initialConnections \/ factoryFailed)

\* after the last Get, with every caller holding a handle and one stale
\* connection discarded, a refill pass has brought a pool built full back
\* to initialConnections idle connections
C15_Witness ==
    /\ ~connsNil /\ ~factoryFailed
    /\ ticks = 1 /\ rpc = "sleep"
    /\ gets = MaxGets
    /\ discards = 1
    /\ \A p \in Callers : pc[p] = "holding"
    /\ initialConnections = maxConnections
    /\ PoolLen = initialConnections

\* the steps of Get around the liveness probe
C16_Steps(p) ==
    /\ (pc[p] = "select" /\ pc'[p] = "get_newconn")
         => /\ aliveChecks
            /\ conns' = Tail(conns)
            /\ closeCount' = [closeCount EXCEPT ![Head(conns)] = @ + 1]
            /\ closeCount'[Head(conns)] = 1
            /\ created' = created
            /\ hconn'[p] = NoConn
    /\ (pc[p] = "select" /\ pc'[p] = "holding")
         => /\ hconn'[p] = Head(conns)
            /\ conns' = Tail(conns)
            /\ closeCount' = closeCount
            /\ created' = created
    /\ (pc[p] = "get_newconn" /\ GetNewConn(p))
         => \/ /\ pc'[p] = "holding"
               /\ created' = created + 1
               /\ hconn'[p] = created + 1
               /\ fault' = "none"
            \/ /\ pc'[p] = "idle"
               /\ ret'[p] = "FactoryErr"
               /\ created' = created
               /\ hconn'[p] = NoConn
               /\ fault' = "none"

\* C16: with aliveChecks on, a connection pulled from the store that fails
\* the probe is closed exactly once, is not put back and is never returned;
\* the factory is invoked exactly once and Get returns a handle on the fresh
\* connection or the factory's error; with aliveChecks off the pulled
\* connection is returned unprobed.
C16_StaleConnectionReplaced == [][\A p \in Callers : C16_Steps(p)]_vars

\* C17: AutoClose changes only the unusable flag of its handle: afterwards it
\* is true iff it was true or the error's code is in closeAt; a held handle's
\* flag is never cleared; the store, the wrapped connection, the closed
\* state and the other handles are unchanged, nothing is built or closed,
\* and nothing panics.
C17_AutoCloseOnlyMarks ==
    [][\A p \in Callers :
         /\ \A code \in Codes :
              AutoClose(p, code) =>
                /\ unusable'[p] = (unusable[p] \/ code \in closeAt)
                /\ \A q \in Callers \ {p} : unusable'[q] = unusable[q]
                /\ UNCHANGED <<poolVars, aliveChecks, initialConnections,
                               created, closeCount, pc, hconn, rconn, ret,
                               keep, refillVars, cpc, fault, factoryFailed>>
         /\ (pc[p] = "holding" /\ pc'[p] = "holding" /\ unusable[p])
              => unusable'[p] ]_vars

\* two handles are out, one marked unusable and one not: AutoClose on either
\* must keep the mark of the first and leave the second alone
C17_Witness ==
    \E p, q \in Callers :
        /\ pc[p] = "holding" /\ unusable[p]
        /\ pc[q] = "holding" /\ ~unusable[q]
        /\ ENABLED AutoClose(p, DiscardCode + 1)
        /\ ENABLED AutoClose(q, DiscardCode + 1)

\* C18: the refill goroutine invokes the factory only at a moment when Len()
\* is below initialConnections, so its puts never raise Len() above
\* initialConnections, whatever handle Closes run during the pass.
C18_RefillOnlyBelowTarget ==
    [][ /\ (rpc = "loop" /\ rpc' = "put") => PoolLen < initialConnections
        /\ (rpc = "put" /\ rpc' = "loop" /\ Len(conns') > Len(conns))
              => Len(conns') <= initialConnections ]_vars

\* C19: once Close has returned, a refill pass and the Close of an unusable
\* handle complete without a panic, build no connection and leave the store
\* empty.
C19_NoFactoryAfterClose ==
    [][AllClosesDone =>
         /\ fault' \notin {"refill_nil_factory", "release_nil_factory"}
         /\ created' = created
         /\ PoolLen' = 0 ]_vars

\* C20: when the factory fails during the Close of an unusable handle on an
\* open pool, the Close still returns normally: it does not end in the
\* dereference of the nil handle that NewConn returns with its error.
C20_UnusableReleaseSurvivesFactoryFailure == fault # "release_nil_conn"

====
